---- MODULE Spec2Model ----
(***************************************************************************)
(* A model of the blockchain node of cryptomark_node1.py: the Blockchain   *)
(* class (chain, pending transactions, peer set) and the Flask handlers    *)
(* that drive it.                                                          *)
(*                                                                         *)
(* Python lists are objects: a block's "transactions" entry and            *)
(* self.transactions are references.  The model keeps them as references   *)
(* into `heap`, so that sharing between a block and the pool is something  *)
(* the code decides and not the model.                                     *)
(*                                                                         *)
(* Two granularities are modelled.  Spec runs every handler as one step    *)
(* (requests served one after the other).  SpecAddMine and SpecTwoMines    *)
(* serve /mine_block and /add_transaction in concurrent threads, as        *)
(* app.run does, one step per read or write of self.chain and              *)
(* self.transactions.                                                      *)
(*                                                                         *)
(* SHA-256 cannot be computed here.  Two idealisations stand in for it:    *)
(*   - the digest of a serialised block is collision free: it is written   *)
(*     "sha256(" \o text \o ")";                                           *)
(*   - the proof-of-work test reads the digest of str(n) from a table of   *)
(*     real SHA-256 digests, with the difficulty scaled from four leading  *)
(*     zero nibbles to one so that proofs stay small (1, 20, 7, 10, ...    *)
(*     instead of 1, 533, 45293, ...).                                     *)
(***************************************************************************)
EXTENDS Integers, Sequences, FiniteSets, TLC

\* ---------------------------------------------------------------- bounds

\* Longest chain the local node mines up to (adopted chains may be longer).
MaxChain == 3
\* Most transactions add_transaction lets wait in the pool.
MaxPool == 2
\* Most peers connect_node registers.
MaxNodes == 2
\* Largest candidate the proof-of-work search tries.
MaxProof == 21

\* ------------------------------------------------------------ SHA-256 data

\* The integers n with |n| <= 576 for which
\* hashlib.sha256(str(n).encode()).hexdigest() starts with "0".
Sha256LeadingZero ==
    { -574, -535, -533, -511, -457, -434, -433, -425, -421, -410, -407, -403,
      -390, -351, -348, -344, -321, -314, -276, -274, -262, -261, -233, -222,
      -204, -195, -73, -53, -39, -20, -6, 39, 49, 51, 55, 109, 125, 146, 149,
      152, 156, 178, 211, 216, 225, 229, 235, 245, 286, 290, 305, 327, 329,
      331, 334, 342, 344, 348, 351, 354, 356, 367, 374, 394, 399, 425, 431,
      437, 439, 445, 463, 471, 500, 519, 520, 549, 559, 561, 570 }

\* hashlib.sha256(str(n).encode()).hexdigest()[:4], cut to the leading nibble:
\* "0" where the code would see "0000", "f" for any other prefix.
hash_operation(n) == IF n \in Sha256LeadingZero THEN "0" ELSE "f"

\* The prefix the code compares hash_operation with ("0000", scaled to "0").
Target == "0"

\* ------------------------------------------------------- pure functions

\* The outcome of a call: a Python value or the exception it raised.
BOOL_TRUE == "True"
BOOL_FALSE == "False"

\* "[e1, e2, ...]" as json.dumps writes a list whose elements are texts.
RECURSIVE json_list(_, _)
json_list(texts, i) ==
    IF i > Len(texts) THEN ""
    ELSE (IF i > 1 THEN ", " ELSE "") \o texts[i] \o json_list(texts, i + 1)

\* json.dumps(transaction, sort_keys=True): keys amount, receiver, sender.
json_dumps_transaction(t) ==
    "{\"amount\": \"" \o t.amount \o "\", \"receiver\": \"" \o t.receiver
        \o "\", \"sender\": \"" \o t.sender \o "\"}"

\* json.dumps(block, sort_keys=True): keys index, previous_hash, proof,
\* timestamp, transactions.  `block` carries its transactions by value.
json_dumps(block) ==
    "{\"index\": " \o ToString(block.index)
        \o ", \"previous_hash\": \"" \o block.previous_hash
        \o "\", \"proof\": " \o ToString(block.proof)
        \o ", \"timestamp\": \"" \o block.timestamp
        \o "\", \"transactions\": ["
        \o json_list([i \in 1..Len(block.transactions) |->
                        json_dumps_transaction(block.transactions[i])], 1)
        \o "]}"

\* Blockchain.hash
hash(block) == "sha256(" \o json_dumps(block) \o ")"

\* proof_search with the previous proof left unsquared.
RECURSIVE proof_search_unsquared(_, _)
proof_search_unsquared(new_proof, previous_proof) ==
    IF new_proof > MaxProof THEN 0
    ELSE IF hash_operation(new_proof * new_proof - previous_proof) = Target
         THEN new_proof
         ELSE proof_search_unsquared(new_proof + 1, previous_proof)

\* The loop of Blockchain.proof_of_work from candidate new_proof on; 0 when no
\* candidate up to MaxProof passes (the code would keep searching).
RECURSIVE proof_search(_, _)
proof_search(new_proof, previous_proof) ==
    IF new_proof > MaxProof THEN 0
    ELSE IF hash_operation(new_proof * new_proof
                             - previous_proof * previous_proof) = Target
         THEN new_proof
         ELSE proof_search(new_proof + 1, previous_proof)

\* proof_of_work that starts its search at 2.
proof_of_work_from_two(previous_proof) == proof_search(2, previous_proof)

\* Blockchain.proof_of_work
proof_of_work(previous_proof) == proof_search(1, previous_proof)

\* valid_from without the comparison of previous_hash.
RECURSIVE valid_from_unlinked(_, _, _)
valid_from_unlinked(chain_, previous_block, block_index) ==
    IF ~(block_index < Len(chain_)) THEN BOOL_TRUE
    ELSE LET block == chain_[block_index + 1]
         IN  IF hash_operation(block.proof * block.proof
                   - previous_block.proof * previous_block.proof) # Target
             THEN BOOL_FALSE
             ELSE valid_from_unlinked(chain_, block, block_index + 1)

\* The while loop of Blockchain.is_chain_valid from block_index (0-based, as in
\* the code) on; chain[block_index] of the code is chain[block_index + 1] here.
RECURSIVE valid_from(_, _, _)
valid_from(chain_, previous_block, block_index) ==
    IF ~(block_index < Len(chain_)) THEN BOOL_TRUE
    ELSE LET block == chain_[block_index + 1]
         IN  IF block.previous_hash # hash(previous_block) THEN BOOL_FALSE
             ELSE IF hash_operation(block.proof * block.proof
                        - previous_block.proof * previous_block.proof) # Target
                  THEN BOOL_FALSE
                  ELSE valid_from(chain_, block, block_index + 1)

\* Blockchain.is_chain_valid: "True", "False", or the IndexError that
\* chain[0] raises on an empty list.
is_chain_valid(chain_) ==
    IF Len(chain_) = 0 THEN "IndexError"
    ELSE valid_from(chain_, chain_[1], 1)

\* ------------------------------------------------------------------ state

VARIABLES
    chain,          \* self.chain: the blocks; a block's transactions entry is a
                    \* reference into heap
    transactions,   \* self.transactions: a reference into heap
    heap,           \* the list objects: heap[r] is the content of list r
    nodes,          \* self.nodes
    op,             \* the handler that ran last
    outcome,        \* what it returned ("True"/"False", an HTTP status) or raised
    returned,       \* the index add_transaction returned (0: none)
    accepted,       \* the transactions add_transaction took in the last step
    answers,        \* replace_chain: what each peer answers to /get_chain,
                    \* in the order `for node in network` visits the set
    pc,             \* requests served by concurrent threads: where each
                    \* thread stands in its handler ("idle": in none)
    local,          \* ... and the local variables of its handler
    log             \* ... and the transactions appended so far, in order

vars == <<chain, transactions, heap, nodes, op, outcome, returned, accepted,
          answers, pc, local, log>>

\* The state of the threads: the handlers that run as one step leave it alone.
threads == <<pc, local, log>>

\* str(datetime.datetime.now()): a text the program stores and hashes and
\* never reads back.
Clock == {"t0"}

\* node_address = str(uuid4()).replace("-", ""): fixed for the process.
node_address == "node_address"

\* The ledger part of the state, as the methods of Blockchain see it.
Ledger == [chain |-> chain, transactions |-> transactions, heap |-> heap]

\* A block with its transactions read through the reference: what json.dumps
\* and jsonify see.
block_value(L, block) == [block EXCEPT !.transactions = L.heap[@]]

\* blockchain.chain as get_chain serialises it and as is_chain_valid reads it.
chain_value(L) == [i \in 1..Len(L.chain) |-> block_value(L, L.chain[i])]

\* The content of the pending pool.
pool(L) == L.heap[L.transactions]

\* --------------------------------------------------------- Blockchain

\* create_block that empties the pool's list in place instead of rebinding
\* self.transactions: the block and the pool share one list.
create_block_cleared(L, proof, previous_hash, now) ==
    LET block == [index |-> Len(L.chain) + 1,
                  timestamp |-> now,
                  proof |-> proof,
                  previous_hash |-> previous_hash,
                  transactions |-> L.transactions]
    IN  [chain |-> Append(L.chain, block),
         transactions |-> L.transactions,
         heap |-> [L.heap EXCEPT ![L.transactions] = << >>]]

\* create_block without `self.transactions = []`: the pool stays the list
\* the block holds, with its content.
create_block_kept(L, proof, previous_hash, now) ==
    LET block == [index |-> Len(L.chain) + 1,
                  timestamp |-> now,
                  proof |-> proof,
                  previous_hash |-> previous_hash,
                  transactions |-> L.transactions]
    IN  [chain |-> Append(L.chain, block),
         transactions |-> L.transactions,
         heap |-> L.heap]

\* Blockchain.create_block: the block takes the reference of the pool, the
\* pool is rebound to a new empty list, the block is appended.
create_block(L, proof, previous_hash, now) ==
    LET block == [index |-> Len(L.chain) + 1,
                  timestamp |-> now,
                  proof |-> proof,
                  previous_hash |-> previous_hash,
                  transactions |-> L.transactions]
        heap1 == Append(L.heap, << >>)
    IN  [chain |-> Append(L.chain, block),
         transactions |-> Len(heap1),
         heap |-> heap1]

\* Blockchain.get_previous_block
get_previous_block(L) == L.chain[Len(L.chain)]

\* Blockchain.add_transaction: the ledger after the append.
add_transaction(L, sender, receiver, amount) ==
    [L EXCEPT !.heap[L.transactions] =
        Append(@, [sender |-> sender, receiver |-> receiver, amount |-> amount])]

\* add_transaction_index that counts the blocks instead of reading the index
\* of the last one.
add_transaction_index_length(L) == Len(L.chain) + 1

\* Blockchain.add_transaction: the value it returns.
add_transaction_index(L) == get_previous_block(L).index + 1

\* __init__ without the call of create_block.
new_blockchain_empty(now) ==
    [chain |-> << >>, transactions |-> 1, heap |-> << << >> >>]

\* Blockchain.__init__: two empty lists, then the genesis block.
new_blockchain(now) ==
    create_block([chain |-> << >>, transactions |-> 1, heap |-> << << >> >>],
                 1, "0", now)

\* urlparse(address).netloc for the addresses connect_node is given.
Addresses == {"http://a:5001", "http://a:5001/get_chain", "http://b:5001"}
netloc(address) ==
    CASE address = "http://a:5001" -> "a:5001"
      [] address = "http://a:5001/get_chain" -> "a:5001"
      [] address = "http://b:5001" -> "b:5001"

\* add_node that adds the address as given, without urlparse.
add_node_raw(nodes_, address) == nodes_ \cup {address}

\* Blockchain.add_node
add_node(nodes_, address) == nodes_ \cup {netloc(address)}

\* ---------------------------------------------------------------- peers

\* What a peer answers to requests.get(f"http://{node}/get_chain"):
\* status 0 stands for requests.get raising (no connection, invalid URL);
\* otherwise the status code and, for 200, the "length" and "chain" of the
\* JSON body.  Blocks of a peer's chain carry their transactions by value.
Response(status, length, chain_) ==
    [status |-> status, length |-> length, chain |-> chain_]

\* A block a peer mined on top of chain_ (a chain held by value).
peer_block(chain_, index, proof, txs, now) ==
    Append(chain_, [index |-> index,
                    timestamp |-> now,
                    proof |-> proof,
                    previous_hash |-> hash(chain_[Len(chain_)]),
                    transactions |-> txs])

PeerTx == [sender |-> "C", receiver |-> "D", amount |-> "3"]
PeerReward == [sender |-> "peer_address", receiver |-> "node1", amount |-> "1"]

\* The chain of a peer that runs this program: its genesis block, then blocks
\* mined with proof_of_work.
PeerGenesis ==
    << [index |-> 1, timestamp |-> "p0", proof |-> 1, previous_hash |-> "0",
        transactions |-> << >>] >>
Honest2 ==
    peer_block(PeerGenesis, 2, proof_of_work(1), << PeerTx >>, "p1")
Honest3 ==
    peer_block(Honest2, 3, proof_of_work(Honest2[2].proof), << PeerReward >>, "p2")
Honest4 ==
    peer_block(Honest3, 4, proof_of_work(Honest3[3].proof), << PeerReward >>, "p3")

\* Honest4 with the proof of its third block changed: fails is_chain_valid.
Tampered4 == [Honest4 EXCEPT ![3].proof = @ + 1]

\* A chain whose hashes and proofs link up but whose first block is no genesis
\* block and whose indices are not consecutive.
ForgedFirst ==
    << [index |-> 7, timestamp |-> "p0", proof |-> 2, previous_hash |-> "beef",
        transactions |-> << PeerTx >>] >>
Forged2 == peer_block(ForgedFirst, 9, proof_of_work(2), << >>, "p1")
Forged3 == peer_block(Forged2, 9, proof_of_work(Forged2[2].proof), << >>, "p2")
Forged4 == peer_block(Forged3, 3, proof_of_work(Forged3[3].proof), << >>, "p3")

\* requests.get raises.
Unreachable == Response(0, 0, << >>)
\* The peer answers with a status other than 200.
Refused == Response(500, 0, << >>)

\* The answers a peer may give.
PeerResponses ==
    { Unreachable,
      Refused,
      Response(200, 9, << >>),
      Response(200, 2, Honest2),
      Response(200, 4, Honest4),
      Response(200, 4, Tampered4),
      Response(200, 4, Forged4),
      Response(200, 5, PeerGenesis) }

\* longest_chain = None
None == [some |-> FALSE, chain |-> << >>]
Some(chain_) == [some |-> TRUE, chain |-> chain_]
\* `if longest_chain:` : neither None nor an empty list.
truthy(longest_chain) == longest_chain.some /\ Len(longest_chain.chain) > 0

\* better with >= for >.
better_or_equal(length, max_length, chain_) ==
    IF length >= max_length THEN is_chain_valid(chain_) ELSE BOOL_FALSE

\* `length > max_length and self.is_chain_valid(chain)`: the validator runs
\* only when the length is greater.
better(length, max_length, chain_) ==
    IF length > max_length THEN is_chain_valid(chain_) ELSE BOOL_FALSE

\* The for loop of Blockchain.replace_chain from the i-th peer on: the
\* exception that ends it ("" when none) and the locals when it ends.
RECURSIVE scan(_, _, _, _)
scan(answers_, i, max_length, longest_chain) ==
    IF i > Len(answers_)
    THEN [raised |-> "", max_length |-> max_length, longest_chain |-> longest_chain]
    ELSE LET response == answers_[i]
         IN  IF response.status = 0
             THEN [raised |-> "RequestException", max_length |-> max_length,
                   longest_chain |-> longest_chain]
             ELSE IF response.status # 200
             THEN scan(answers_, i + 1, max_length, longest_chain)
             ELSE LET b == better(response.length, max_length, response.chain)
                  IN  IF b = BOOL_TRUE
                      THEN scan(answers_, i + 1, response.length, Some(response.chain))
                      ELSE IF b = BOOL_FALSE
                      THEN scan(answers_, i + 1, max_length, longest_chain)
                      ELSE [raised |-> b, max_length |-> max_length,
                            longest_chain |-> longest_chain]

\* `self.chain = longest_chain`: the chain becomes the list decoded from the
\* peer's JSON, whose blocks hold lists of their own.  The lists of the old
\* blocks are no longer referenced and leave the heap; references are
\* renumbered: block i holds list i, the pool is the list after them.
adopt(L, chain_) ==
    [chain |-> [i \in 1..Len(chain_) |-> [chain_[i] EXCEPT !.transactions = i]],
     transactions |-> Len(chain_) + 1,
     heap |-> [i \in 1..Len(chain_) + 1 |->
                 IF i <= Len(chain_) THEN chain_[i].transactions ELSE pool(L)]]

\* replace_chain that assigns self.chain inside the loop, as soon as a peer's
\* chain is better: an exception raised by a later peer finds it written.
replace_chain_eager(L, answers_) ==
    LET r == scan(answers_, 1, Len(L.chain), None)
    IN  IF truthy(r.longest_chain)
        THEN [outcome |-> IF r.raised # "" THEN r.raised ELSE BOOL_TRUE,
              ledger |-> adopt(L, r.longest_chain.chain)]
        ELSE [outcome |-> IF r.raised # "" THEN r.raised ELSE BOOL_FALSE,
              ledger |-> L]

\* Blockchain.replace_chain: what it returns or raises, and the ledger after.
replace_chain(L, answers_) ==
    LET r == scan(answers_, 1, Len(L.chain), None)
    IN  IF r.raised # "" THEN [outcome |-> r.raised, ledger |-> L]
        ELSE IF truthy(r.longest_chain)
        THEN [outcome |-> BOOL_TRUE, ledger |-> adopt(L, r.longest_chain.chain)]
        ELSE [outcome |-> BOOL_FALSE, ledger |-> L]

\* -------------------------------------------------------------- handlers

\* The senders, receivers and amounts POSTed to /add_transaction.
Senders == {"A"}
Receivers == {"B"}
Amounts == {"5"}

SetLedger(L) ==
    /\ chain' = L.chain
    /\ transactions' = L.transactions
    /\ heap' = L.heap

\* The threads that serve requests concurrently: two that serve /mine_block,
\* one that serves /add_transaction.
Miners == {"m1", "m2"}
Adders == {"a1"}
Threads == Miners \cup Adders

\* The locals of a handler before it assigns them.
NoBlock ==
    [index |-> 0, timestamp |-> "", proof |-> 0, previous_hash |-> "",
     transactions |-> 0]
NoTransaction == [sender |-> "", receiver |-> "", amount |-> ""]
NoLocals ==
    [previous_block |-> NoBlock, proof |-> 0, previous_hash |-> "",
     index |-> 0, block |-> NoBlock, list |-> 0, transaction |-> NoTransaction]

Init ==
    /\ \E now \in Clock : LET L == new_blockchain(now)
                          IN  /\ chain = L.chain
                              /\ transactions = L.transactions
                              /\ heap = L.heap
    /\ nodes = {}
    /\ op = "init"
    /\ outcome = ""
    /\ returned = 0
    /\ accepted = << >>
    /\ answers = << >>
    /\ pc = [t \in Threads |-> "idle"]
    /\ local = [t \in Threads |-> NoLocals]
    /\ log = << >>

\* GET /mine_block
mine_block ==
    LET previous_block == get_previous_block(Ledger)
        previous_proof == previous_block.proof
        proof == proof_of_work(previous_proof)
        previous_hash == hash(block_value(Ledger, previous_block))
    IN  /\ Len(chain) < MaxChain
        /\ proof # 0
        /\ \E now \in Clock :
             LET L1 == create_block(Ledger, proof, previous_hash, now)
                 L2 == add_transaction(L1, node_address, "node1", "1")
             IN  /\ SetLedger(L2)
                 /\ returned' = add_transaction_index(L2)
                 /\ accepted' = << [sender |-> node_address,
                                    receiver |-> "node1", amount |-> "1"] >>
        /\ op' = "mine_block"
        /\ outcome' = "200"
        /\ answers' = << >>
        /\ UNCHANGED <<nodes, threads>>

\* POST /add_transaction (with the three keys the handler asks for)
add_transaction_ok ==
    /\ Len(pool(Ledger)) < MaxPool
    /\ \E sender \in Senders, receiver \in Receivers, amount \in Amounts :
         LET L1 == add_transaction(Ledger, sender, receiver, amount)
         IN  /\ SetLedger(L1)
             /\ returned' = add_transaction_index(L1)
             /\ accepted' = << [sender |-> sender, receiver |-> receiver,
                                amount |-> amount] >>
    /\ op' = "add_transaction"
    /\ outcome' = "201"
    /\ answers' = << >>
    /\ UNCHANGED <<nodes, threads>>

\* POST /connect_node with a list of one or two addresses
connect_node ==
    /\ \E a1, a2 \in Addresses :
         /\ nodes' = add_node(add_node(nodes, a1), a2)
         /\ Cardinality(nodes') <= MaxNodes
    /\ op' = "connect_node"
    /\ outcome' = "201"
    /\ returned' = 0
    /\ accepted' = << >>
    /\ answers' = << >>
    /\ UNCHANGED <<chain, transactions, heap, threads>>

\* GET /replace_chain
replace_chain_handler ==
    /\ \E fetched \in [1..Cardinality(nodes) -> PeerResponses] :
         /\ answers' = fetched
         /\ LET r == replace_chain(Ledger, fetched)
            IN  /\ SetLedger(r.ledger)
                /\ outcome' = r.outcome
    /\ op' = "replace_chain"
    /\ returned' = 0
    /\ accepted' = << >>
    /\ UNCHANGED <<nodes, threads>>

Next ==
    \/ mine_block
    \/ add_transaction_ok
    \/ connect_node
    \/ replace_chain_handler

Spec == Init /\ [][Next]_vars

\* ------------------------------------------------- handlers, step by step

\* `self.transactions.clear()` for `self.transactions = []`.
rebind_cleared(L) == [L EXCEPT !.heap[L.transactions] = << >>]

\* create_block, `self.transactions = []`: the pool is a new empty list.
rebind(L) ==
    [L EXCEPT !.heap = Append(@, << >>), !.transactions = Len(L.heap) + 1]

\* create_block, `self.chain.append(block)`
append_block(L, block) == [L EXCEPT !.chain = Append(@, block)]

\* add_transaction, `.append({...})` on the list read before.
append_to(L, list, transaction) ==
    [L EXCEPT !.heap[list] = Append(@, transaction)]

\* The threads between get_previous_block and self.chain.append(block).
mining == {t \in Miners : pc[t] \in {"hash", "index", "block", "rebind", "append"}}

\* mine_block: previous_block = get_previous_block(), then the proof of work
\* on its proof.
mine_previous(t) ==
    LET previous_block == get_previous_block(Ledger)
        proof == proof_of_work(previous_block.proof)
    IN  /\ pc[t] = "idle"
        /\ Len(chain) + Cardinality(mining) < MaxChain
        /\ proof # 0
        /\ local' = [local EXCEPT ![t] =
                       [NoLocals EXCEPT !.previous_block = previous_block,
                                        !.proof = proof]]
        /\ pc' = [pc EXCEPT ![t] = "hash"]
        /\ UNCHANGED <<chain, transactions, heap, nodes, op, outcome, returned,
                       accepted, answers, log>>

\* mine_block: previous_hash = blockchain.hash(previous_block), which reads
\* the transactions of the block as they are now.
mine_hash(t) ==
    /\ pc[t] = "hash"
    /\ local' = [local EXCEPT ![t].previous_hash =
                   hash(block_value(Ledger, local[t].previous_block))]
    /\ pc' = [pc EXCEPT ![t] = "index"]
    /\ UNCHANGED <<chain, transactions, heap, nodes, op, outcome, returned,
                   accepted, answers, log>>

\* create_block: "index": len(self.chain)+1
create_index(t) ==
    /\ pc[t] = "index"
    /\ local' = [local EXCEPT ![t].index = Len(chain) + 1]
    /\ pc' = [pc EXCEPT ![t] = "block"]
    /\ UNCHANGED <<chain, transactions, heap, nodes, op, outcome, returned,
                   accepted, answers, log>>

\* create_block: the rest of the dict, "transactions": self.transactions last.
create_dict(t) ==
    /\ pc[t] = "block"
    /\ \E now \in Clock :
         local' = [local EXCEPT ![t].block =
                     [index |-> local[t].index,
                      timestamp |-> now,
                      proof |-> local[t].proof,
                      previous_hash |-> local[t].previous_hash,
                      transactions |-> transactions]]
    /\ pc' = [pc EXCEPT ![t] = "rebind"]
    /\ UNCHANGED <<chain, transactions, heap, nodes, op, outcome, returned,
                   accepted, answers, log>>

\* create_block: self.transactions = []
create_rebind(t) ==
    /\ pc[t] = "rebind"
    /\ SetLedger(rebind(Ledger))
    /\ pc' = [pc EXCEPT ![t] = "append"]
    /\ UNCHANGED <<nodes, op, outcome, returned, accepted, answers, local, log>>

\* create_block: self.chain.append(block)
create_append(t) ==
    /\ pc[t] = "append"
    /\ SetLedger(append_block(Ledger, local[t].block))
    /\ pc' = [pc EXCEPT ![t] = "reward"]
    /\ UNCHANGED <<nodes, op, outcome, returned, accepted, answers, local, log>>

\* mine_block: add_transaction(node_address, "node1", "1") evaluates
\* self.transactions.
reward_read(t) ==
    /\ pc[t] = "reward"
    /\ local' = [local EXCEPT ![t].list = transactions,
                              ![t].transaction =
                                  [sender |-> node_address, receiver |-> "node1",
                                   amount |-> "1"]]
    /\ pc' = [pc EXCEPT ![t] = "add"]
    /\ UNCHANGED <<chain, transactions, heap, nodes, op, outcome, returned,
                   accepted, answers, log>>

\* POST /add_transaction: add_transaction evaluates self.transactions.
add_read(t) ==
    /\ pc[t] = "idle"
    /\ Len(pool(Ledger)) < MaxPool
    /\ \E sender \in Senders, receiver \in Receivers, amount \in Amounts :
         local' = [local EXCEPT ![t] =
                     [NoLocals EXCEPT !.list = transactions,
                                      !.transaction =
                                          [sender |-> sender, receiver |-> receiver,
                                           amount |-> amount]]]
    /\ pc' = [pc EXCEPT ![t] = "add"]
    /\ UNCHANGED <<chain, transactions, heap, nodes, op, outcome, returned,
                   accepted, answers, log>>

\* add_transaction: .append({...}) on the list it evaluated.
add_append(t) ==
    /\ pc[t] = "add"
    /\ SetLedger(append_to(Ledger, local[t].list, local[t].transaction))
    /\ log' = Append(log, local[t].transaction)
    /\ pc' = [pc EXCEPT ![t] = "return"]
    /\ UNCHANGED <<nodes, op, outcome, returned, accepted, answers, local>>

\* add_transaction: return get_previous_block()["index"] + 1, and the
\* handler's response.
add_return(t) ==
    /\ pc[t] = "return"
    /\ returned' = add_transaction_index(Ledger)
    /\ local' = [local EXCEPT ![t] = NoLocals]
    /\ pc' = [pc EXCEPT ![t] = "idle"]
    /\ UNCHANGED <<chain, transactions, heap, nodes, op, outcome, accepted,
                   answers, log>>

\* A step of a thread that serves /mine_block.
MinerStep(t) ==
    \/ mine_previous(t)
    \/ mine_hash(t)
    \/ create_index(t)
    \/ create_dict(t)
    \/ create_rebind(t)
    \/ create_append(t)
    \/ reward_read(t)
    \/ add_append(t)
    \/ add_return(t)

\* A step of a thread that serves /add_transaction.
AdderStep(t) ==
    \/ add_read(t)
    \/ add_append(t)
    \/ add_return(t)

\* One /mine_block at a time, concurrent with /add_transaction.
NextAddMine ==
    \/ MinerStep("m1")
    \/ \E t \in Adders : AdderStep(t)

SpecAddMine == Init /\ [][NextAddMine]_vars

\* Two /mine_block requests served concurrently.
NextTwoMines == \E t \in Miners : MinerStep(t)

SpecTwoMines == Init /\ [][NextTwoMines]_vars

\* ------------------------------------------------------------ properties

\* The ledger after the step.
LedgerNext == [chain |-> chain', transactions |-> transactions', heap |-> heap']

\* The transactions of block i of the local chain.
transactions_of(L, i) == L.heap[L.chain[i].transactions]

Reward == [sender |-> node_address, receiver |-> "node1", amount |-> "1"]
UserTx == [sender |-> "A", receiver |-> "B", amount |-> "5"]

\* C1: a chain built from the genesis block by add_transaction and mine_block
\* passes is_chain_valid: every block names the hash of its predecessor as it
\* stands in the chain, and the proof the miner found passes the validator's
\* test.  (It holds in every reachable state: a chain taken from a peer has
\* passed is_chain_valid before it is extended.)
C1_MinedChainIsValid ==
    LET c == chain_value(Ledger)
    IN  /\ is_chain_valid(c) = BOOL_TRUE
        /\ \A i \in 2..Len(c) :
             /\ c[i].previous_hash = hash(c[i - 1])
             /\ hash_operation(c[i].proof * c[i].proof
                                 - c[i - 1].proof * c[i - 1].proof) = Target

\* C1 witness: two blocks mined on the node's own genesis block, the first
\* holding a transaction.
C1_Witness ==
    /\ op = "mine_block"
    /\ Len(chain) = 3
    /\ chain[1].timestamp \in Clock
    /\ transactions_of(Ledger, 2) = << UserTx >>
    /\ chain[3].proof = proof_of_work(proof_of_work(1))

\* What C2 says of one call of create_block in ledger L.
C2_CreateBlockOn(L, proof, previous_hash, now) ==
    LET L1 == create_block(L, proof, previous_hash, now)
        n == Len(L.chain)
    IN  /\ Len(L1.chain) = n + 1
        /\ \A i \in 1..n : block_value(L1, L1.chain[i]) = block_value(L, L.chain[i])
        /\ transactions_of(L1, n + 1) = pool(L)
        /\ L1.chain[n + 1].index = n + 1
        /\ L1.chain[n + 1].proof = proof
        /\ L1.chain[n + 1].previous_hash = previous_hash
        /\ pool(L1) = << >>
        /\ \A sender \in Senders, receiver \in Receivers, amount \in Amounts :
             LET L2 == add_transaction(L1, sender, receiver, amount)
             IN  /\ chain_value(L2) = chain_value(L1)
                 /\ Len(pool(L2)) = 1

\* C2: create_block appends one block whose transactions are the pool's, in
\* order, and whose index is the length before the call plus one, and leaves
\* an empty pool; add_transaction calls after it leave the blocks as they are.
\* (The call is tried in the state before each step of mine_block,
\* add_transaction and connect_node, one of which every state allows.)
C2_CreateBlockTakesPool ==
    [][ /\ op' # "replace_chain" =>
             \A proof \in {1, proof_of_work(get_previous_block(Ledger).proof)} :
               \A now \in Clock :
                 C2_CreateBlockOn(Ledger, proof,
                                  hash(block_value(Ledger, get_previous_block(Ledger))),
                                  now)
        /\ op' = "mine_block" =>
             /\ Len(chain') = Len(chain) + 1
             /\ SubSeq(chain_value(LedgerNext), 1, Len(chain)) = chain_value(Ledger)
             /\ transactions_of(LedgerNext, Len(chain')) = pool(Ledger)
             /\ chain'[Len(chain')].index = Len(chain) + 1
             /\ pool(LedgerNext) = << Reward >>
        /\ op' = "add_transaction" =>
             /\ chain_value(LedgerNext) = chain_value(Ledger)
             /\ pool(LedgerNext) = pool(Ledger) \o accepted'
      ]_vars

\* C2 witness: a block that took a pool of two transactions, and an
\* add_transaction after it.
C2_Witness ==
    /\ op = "add_transaction"
    /\ Len(chain) = 3
    /\ transactions_of(Ledger, 3) = << Reward, UserTx >>
    /\ pool(Ledger) = << Reward, UserTx >>

\* Every transaction of the blocks, then those of the pool.
RECURSIVE block_transactions(_, _)
block_transactions(L, i) ==
    IF i > Len(L.chain) THEN << >>
    ELSE transactions_of(L, i) \o block_transactions(L, i + 1)
all_transactions(L) == block_transactions(L, 1) \o pool(L)

Count(t, seq) == Cardinality({i \in DOMAIN seq : seq[i] = t})
Range(seq) == {seq[i] : i \in DOMAIN seq}

\* The step neither drops nor duplicates a transaction the ledger holds or
\* takes in: it is in the blocks and the pool as often as before, plus once
\* for each time add_transaction took it in this step.  (A step that leaves
\* the ledger alone and takes nothing in conserves them without counting.)
Conserved ==
    \/ /\ UNCHANGED <<chain, transactions, heap>>
       /\ accepted' = << >>
    \/ LET before == all_transactions(Ledger)
           after == all_transactions(LedgerNext)
       IN  \A t \in Range(before) \cup Range(accepted') :
             Count(t, after) = Count(t, before) + Count(t, accepted')

\* The transactions add_transaction can have accepted on this node.
LocalTransactions ==
    {Reward} \cup [sender : Senders, receiver : Receivers, amount : Amounts]

\* Every peer that answers 200 reports the length its chain has.
truthful(answers_) ==
    \A i \in DOMAIN answers_ :
      answers_[i].status = 200 => answers_[i].length = Len(answers_[i].chain)

\* C3, as claimed: no operation, replace_chain included, drops or duplicates
\* a transaction that add_transaction accepted.  (Stated for the steps in
\* which the peers report the true length of their chains, so that what
\* refutes it is the replacement itself.)
C3_NoTransactionLost ==
    [][ truthful(answers') =>
          \A t \in LocalTransactions :
            Count(t, all_transactions(LedgerNext))
              = Count(t, all_transactions(Ledger)) + Count(t, accepted')
      ]_vars

\* C3, amended: add_transaction, mine_block, connect_node and a replace_chain
\* that returns False or raises keep every accepted transaction exactly once
\* in the blocks and the pool; a replace_chain that returns True keeps the
\* pool and puts the transactions of the adopted chain in place of those of
\* the blocks it replaces.
C3_NoTransactionLostButByReplace ==
    [][ IF op' = "replace_chain" /\ outcome' = BOOL_TRUE
        THEN /\ pool(LedgerNext) = pool(Ledger)
             /\ \E i \in DOMAIN answers' :
                  chain_value(LedgerNext) = answers'[i].chain
        ELSE Conserved
      ]_vars

\* C3 witness: a block mined with two transactions of the pool, after the
\* node registered a peer and replace_chain kept the chain.
C3_Witness ==
    /\ op = "mine_block"
    /\ nodes # {}
    /\ Len(chain) = 3
    /\ Len(transactions_of(Ledger, 3)) = 2
    /\ pool(Ledger) = << Reward >>

\* The peers that answer 200 with a chain that passes is_chain_valid.
valid_peers(answers_) ==
    { i \in DOMAIN answers_ :
        /\ answers_[i].status = 200
        /\ is_chain_valid(answers_[i].chain) = BOOL_TRUE }

\* C4: when every peer answers and one of them reports a valid chain with a
\* length greater than the local one, replace_chain returns True and the
\* chain is that of a peer whose chain is valid and whose reported length is
\* the greatest among the peers with a valid chain.
C4_AdoptsLongestValid ==
    [][ ( /\ op' = "replace_chain"
          /\ \A i \in DOMAIN answers' : answers'[i].status # 0
          /\ \E i \in valid_peers(answers') : answers'[i].length > Len(chain) )
        => /\ outcome' = BOOL_TRUE
           /\ \E i \in valid_peers(answers') :
                /\ chain_value(LedgerNext) = answers'[i].chain
                /\ \A j \in valid_peers(answers') :
                     answers'[j].length <= answers'[i].length
      ]_vars

\* C5: when every peer reports a chain that is no longer than the local one,
\* or a longer one for which is_chain_valid returns False, replace_chain
\* returns False and leaves the chain as it is; a valid chain of exactly the
\* local length does not replace it.
C5_KeepsChain ==
    [][ ( /\ op' = "replace_chain"
          /\ \A i \in DOMAIN answers' :
               /\ answers'[i].status = 200
               /\ \/ answers'[i].length <= Len(chain)
                  \/ is_chain_valid(answers'[i].chain) = BOOL_FALSE )
        => /\ outcome' = BOOL_FALSE
           /\ chain' = chain
           /\ chain_value(LedgerNext) = chain_value(Ledger)
      ]_vars

\* C5 witness: replace_chain returned False with one peer reporting a valid
\* chain of exactly the local length and one a longer chain that fails
\* is_chain_valid.
C5_Witness ==
    /\ op = "replace_chain"
    /\ outcome = BOOL_FALSE
    /\ Len(answers) = 2
    /\ answers[1].status = 200
    /\ answers[1].length = Len(chain)
    /\ Len(answers[1].chain) = Len(chain)
    /\ is_chain_valid(answers[1].chain) = BOOL_TRUE
    /\ answers[1].chain # chain_value(Ledger)
    /\ answers[2].status = 200
    /\ answers[2].length > Len(chain)
    /\ is_chain_valid(answers[2].chain) = BOOL_FALSE

\* The answers of the peers that answer 200: the scan as it would be without
\* the peers that cannot be reached or answer another status.
RECURSIVE without_failing(_, _)
without_failing(answers_, i) ==
    IF i > Len(answers_) THEN << >>
    ELSE (IF answers_[i].status = 200 THEN << answers_[i] >> ELSE << >>)
            \o without_failing(answers_, i + 1)

\* C6: a peer that cannot be reached, or that answers with a status other
\* than 200, is skipped: replace_chain raises nothing for it and ends as it
\* would without that peer.
C6_FailingPeerIsSkipped ==
    [][ ( /\ op' = "replace_chain"
          /\ \E i \in DOMAIN answers' : answers'[i].status # 200 )
        => LET r == replace_chain(Ledger, without_failing(answers', 1))
           IN  /\ outcome' # "RequestException"
               /\ outcome' = r.outcome
               /\ chain_value(LedgerNext) = chain_value(r.ledger)
      ]_vars

\* C7: is_chain_valid yields True or False for every chain a peer delivers
\* to replace_chain, the empty one included, and replace_chain never ends in
\* a fault of the validator.
C7_ValidatorNeverFaults ==
    /\ \A i \in DOMAIN answers :
         answers[i].status = 200 =>
           is_chain_valid(answers[i].chain) \in {BOOL_TRUE, BOOL_FALSE}
    /\ outcome # "IndexError"

\* The proofs and hashes a block is tampered with.
TamperProofs == (0 - MaxProof)..MaxProof
TamperHashes(chain_) == {"0", "beef"} \cup {hash(chain_[i]) : i \in DOMAIN chain_}

\* C8, as claimed: in a valid chain of at least two blocks, changing the
\* proof or the previous_hash of any one block makes is_chain_valid return
\* False.
C8_AnyTamperingIsDetected ==
    LET c == chain_value(Ledger)
    IN  (Len(c) >= 2 /\ is_chain_valid(c) = BOOL_TRUE) =>
          \A i \in DOMAIN c :
            /\ \A p \in TamperProofs \ {c[i].proof} :
                 is_chain_valid([c EXCEPT ![i].proof = p]) = BOOL_FALSE
            /\ \A h \in TamperHashes(c) \ {c[i].previous_hash} :
                 is_chain_valid([c EXCEPT ![i].previous_hash = h]) = BOOL_FALSE

\* C8, amended: changing the previous_hash of any block, or the proof of any
\* block but the last, makes is_chain_valid return False; with the proof of
\* the last block changed, is_chain_valid returns False exactly when the new
\* proof fails the proof-of-work test against the proof of the block before
\* (the negated proof, for one, passes it).
C8_TamperingIsDetectedButLastProof ==
    LET c == chain_value(Ledger)
        n == Len(c)
    IN  (n >= 2 /\ is_chain_valid(c) = BOOL_TRUE) =>
          /\ \A i \in DOMAIN c :
               \A h \in TamperHashes(c) \ {c[i].previous_hash} :
                 is_chain_valid([c EXCEPT ![i].previous_hash = h]) = BOOL_FALSE
          /\ \A i \in 1..(n - 1) :
               \A p \in TamperProofs \ {c[i].proof} :
                 is_chain_valid([c EXCEPT ![i].proof = p]) = BOOL_FALSE
          /\ \A p \in TamperProofs \ {c[n].proof} :
               (is_chain_valid([c EXCEPT ![n].proof = p]) = BOOL_FALSE)
                 <=> (hash_operation(p * p - c[n - 1].proof * c[n - 1].proof) # Target)
          /\ is_chain_valid([c EXCEPT ![n].proof = 0 - c[n].proof]) = BOOL_TRUE

\* C8 witness: a mined chain of three blocks; a changed proof in the middle
\* block is detected, the last block's proof plus one is detected, its
\* negation is not.
C8_Witness ==
    LET c == chain_value(Ledger)
    IN  /\ Len(c) = 3
        /\ op = "mine_block"
        /\ is_chain_valid(c) = BOOL_TRUE
        /\ is_chain_valid([c EXCEPT ![2].proof = @ + 1]) = BOOL_FALSE
        /\ is_chain_valid([c EXCEPT ![3].proof = @ + 1]) = BOOL_FALSE
        /\ is_chain_valid([c EXCEPT ![3].proof = 0 - @]) = BOOL_TRUE

\* C9: the chain has length 1 after construction and its first block is the
\* genesis block in every reachable state: index 1, previous_hash "0",
\* proof 1, no transactions.
C9_FirstBlockIsGenesis ==
    /\ op = "init" => Len(chain) = 1
    /\ Len(chain) >= 1
    /\ chain[1].index = 1
    /\ chain[1].previous_hash = "0"
    /\ chain[1].proof = 1
    /\ transactions_of(Ledger, 1) = << >>

\* C10: the indices of the blocks are consecutive from 1 in every reachable
\* state: chain[i].index == chain[i-1].index + 1 == i + 1 (counting from 0).
C10_IndicesAreConsecutive ==
    \A i \in 2..Len(chain) :
      /\ chain[i].index = chain[i - 1].index + 1
      /\ chain[i].index = i

\* C11: add_transaction appends one transaction with the sender, receiver and
\* amount it is given at the end of the pool, returns the index of the last
\* block plus one, and leaves the chain and the peer set as they are.
\* (The method is tried in the state before each step of mine_block,
\* add_transaction and connect_node, one of which every state allows.)
C11_AddTransactionAppendsOne ==
    [][ /\ op' # "replace_chain" =>
             \A sender \in Senders \cup {node_address} :
               \A receiver \in Receivers \cup {"node1"} :
                 \A amount \in Amounts \cup {"1"} :
                   LET L1 == add_transaction(Ledger, sender, receiver, amount)
                   IN  /\ pool(L1) = Append(pool(Ledger),
                                            [sender |-> sender, receiver |-> receiver,
                                             amount |-> amount])
                       /\ L1.chain = chain
                       /\ chain_value(L1) = chain_value(Ledger)
                       /\ add_transaction_index(L1) = chain[Len(chain)].index + 1
        /\ op' = "add_transaction" =>
             /\ Len(accepted') = 1
             /\ accepted'[1] \in [sender : Senders, receiver : Receivers,
                                  amount : Amounts]
             /\ pool(LedgerNext) = Append(pool(Ledger), accepted'[1])
             /\ returned' = chain[Len(chain)].index + 1
             /\ chain' = chain
             /\ chain_value(LedgerNext) = chain_value(Ledger)
             /\ nodes' = nodes
      ]_vars

\* C11 witness: add_transaction put a second transaction after the one in the
\* pool, with a peer registered, on a chain whose last index is not its length.
C11_Witness ==
    /\ op = "add_transaction"
    /\ nodes # {}
    /\ pool(Ledger) = << UserTx, UserTx >>
    /\ returned = chain[Len(chain)].index + 1
    /\ returned # Len(chain) + 1

\* C12: add_node is idempotent: an address whose netloc is in the peer set
\* leaves the set as it is, and the same netloc registered twice on an empty
\* set gives a set of one; add_node removes no peer, and connect_node changes
\* neither the chain nor the pool.
C12_AddNodeIsIdempotent ==
    [][ /\ \A a1 \in Addresses :
             /\ nodes \subseteq add_node(nodes, a1)
             /\ netloc(a1) \in add_node(nodes, a1)
             /\ netloc(a1) \in nodes => add_node(nodes, a1) = nodes
             /\ add_node(add_node(nodes, a1), a1) = add_node(nodes, a1)
             /\ \A a2 \in Addresses :
                  netloc(a1) = netloc(a2) =>
                    Cardinality(add_node(add_node({}, a1), a2)) = 1
        /\ op' = "connect_node" =>
             /\ nodes \subseteq nodes'
             /\ chain' = chain
             /\ chain_value(LedgerNext) = chain_value(Ledger)
             /\ pool(LedgerNext) = pool(Ledger)
      ]_vars

\* C12 witness: connect_node ran with a peer set that stayed at one peer
\* while blocks and pool hold transactions.
C12_Witness ==
    /\ op = "connect_node"
    /\ nodes = {"a:5001"}
    /\ Len(chain) = 2
    /\ pool(Ledger) = << Reward, UserTx >>

\* The previous proofs proof_of_work is asked about.
PreviousProofs == 1..MaxProof

\* The PoW predicate of the miner on (new_proof, previous_proof).
pow_predicate(new_proof, previous_proof) ==
    hash_operation(new_proof * new_proof - previous_proof * previous_proof) = Target

\* C13: for every previous proof for which a positive candidate passes the
\* PoW predicate, proof_of_work ends and returns the smallest positive
\* integer that passes it; the result depends on the previous proof alone
\* (the proof of a mined block is that of its predecessor's proof, whatever
\* the ledger holds).
C13_SmallestProof ==
    /\ \A p \in PreviousProofs :
         (\E q \in 1..MaxProof : pow_predicate(q, p)) =>
           LET found == proof_of_work(p)
           IN  /\ found \in 1..MaxProof
               /\ pow_predicate(found, p)
               /\ \A q \in 1..(found - 1) : ~pow_predicate(q, p)
    /\ (op = "mine_block") =>
         LET n == Len(chain)
         IN  /\ chain[n].proof = proof_of_work(chain[n - 1].proof)
             /\ chain[n].proof >= 1
             /\ \A q \in 1..(chain[n].proof - 1) :
                  ~pow_predicate(q, chain[n - 1].proof)

\* C13 witness: a block mined on a block whose proof admits candidate 20 and
\* none below it, while some previous proof (14) is answered by candidate 1.
C13_Witness ==
    /\ op = "mine_block"
    /\ Len(chain) = 3
    /\ chain[2].proof = 20
    /\ chain[3].proof = proof_of_work(20)
    /\ chain[3].proof > 1
    /\ proof_of_work(14) = 1

\* C14: the chain is never empty, so get_previous_block never fails, also
\* after a replace_chain in which a peer delivers an empty chain with a large
\* reported length.
C14_ChainNeverEmpty ==
    /\ Len(chain) >= 1
    /\ get_previous_block(Ledger) = chain[Len(chain)]
    /\ get_previous_block(Ledger).index >= 1

\* C14 witness: replace_chain ran on a mined chain with a peer that delivers
\* an empty chain and reports length 9.
C14_Witness ==
    /\ op = "replace_chain"
    /\ Len(chain) = 3
    /\ \E i \in DOMAIN answers :
         /\ answers[i].status = 200
         /\ answers[i].chain = << >>
         /\ answers[i].length > Len(chain)

\* C15: a block that is in the chain is not changed by any later step: each
\* step leaves every block of the chain in place with the fields and the
\* transactions it had, also when the steps of add_transaction (evaluate
\* self.transactions, append to it) interleave with those of create_block
\* (store self.transactions in the block, rebind it, append the block).
C15_AppendedBlocksNeverChange ==
    [][ \A i \in 1..Len(chain) :
          /\ i <= Len(chain')
          /\ block_value(LedgerNext, chain'[i]) = block_value(Ledger, chain[i])
      ]_vars

\* The transactions of the blocks that create_block has built and taken out
\* of the pool and not yet appended to the chain.
RECURSIVE blocks_in_creation(_)
blocks_in_creation(ts) ==
    IF ts = {} THEN << >>
    ELSE LET t == CHOOSE u \in ts : TRUE
         IN  (IF pc[t] = "append" THEN heap[local[t].block.transactions] ELSE << >>)
                \o blocks_in_creation(ts \ {t})

\* C16: with add_transaction running concurrently with mine_block, every
\* transaction appended is exactly once in the blocks of the chain, the block
\* being created and the pool, at every step; once the requests have ended
\* it is exactly once in the blocks and the pool.  No list is that of two
\* blocks or of a block and the pool.
C16_AddedOnceInBlockOrPool ==
    /\ \A tx \in LocalTransactions :
         Count(tx, all_transactions(Ledger)) + Count(tx, blocks_in_creation(Miners))
           = Count(tx, log)
    /\ (\A t \in Threads : pc[t] = "idle") =>
         \A tx \in LocalTransactions :
           Count(tx, all_transactions(Ledger)) = Count(tx, log)
    /\ \A i \in DOMAIN chain :
         /\ chain[i].transactions # transactions
         /\ \A j \in DOMAIN chain : i # j => chain[i].transactions # chain[j].transactions

\* C16 witness: add_transaction evaluated self.transactions before
\* create_block rebound it and appended after the block was in the chain:
\* the transaction is in that block, the request /mine_block has ended.
C16_Witness ==
    /\ pc["a1"] = "return"
    /\ pc["m1"] = "idle"
    /\ Len(chain) = 3
    /\ local["a1"].list = chain[3].transactions
    /\ local["a1"].list # transactions
    /\ transactions_of(Ledger, 3) = << Reward, UserTx >>
    /\ log = << Reward, Reward, UserTx >>

\* C17: when two /mine_block requests have run concurrently and ended, the
\* chain passes is_chain_valid.
C17_ConcurrentMinesKeepChainValid ==
    (\A t \in Miners : pc[t] = "idle") =>
      is_chain_valid(chain_value(Ledger)) = BOOL_TRUE

\* C18: the number of blocks of the chain never decreases, and a replace_chain
\* that returns True leaves a chain with more blocks than before, whatever
\* the peers answer (a reported length that is not the number of blocks
\* delivered included).
C18_LengthNeverDecreases ==
    [][ /\ Len(chain') >= Len(chain)
        /\ (op' = "replace_chain" /\ outcome' = BOOL_TRUE) =>
             Len(chain') > Len(chain)
      ]_vars

\* C19: the index add_transaction returned is the index of the block the
\* next create_block produces: chain[-1]["index"] + 1 = len(chain) + 1.
C19_ReturnedIndexIsNextBlock ==
    /\ add_transaction_index(Ledger) = Len(chain) + 1
    /\ op = "add_transaction" =>
         \A now \in Clock :
           LET L1 == create_block(Ledger, 1, "0", now)
           IN  returned = L1.chain[Len(L1.chain)].index

\* C20: replace_chain changes nothing but the chain: the pool and the peer
\* set are after the call what they were before; the chain is assigned only
\* when the loop over the peers has ended, so a call that raises leaves it
\* as it was, a call that returns False too, and a call that returns True
\* leaves the chain of a peer that no later peer in the scan outbids.
C20_ReplaceChainFrame ==
    [][ op' = "replace_chain" =>
          /\ pool(LedgerNext) = pool(Ledger)
          /\ nodes' = nodes
          /\ outcome' # BOOL_TRUE =>
               /\ chain' = chain
               /\ heap' = heap
               /\ transactions' = transactions
          /\ outcome' = BOOL_TRUE =>
               /\ \A j \in DOMAIN answers' : answers'[j].status # 0
               /\ \E i \in DOMAIN answers' :
                    /\ answers'[i].status = 200
                    /\ answers'[i].length > Len(chain)
                    /\ chain_value(LedgerNext) = answers'[i].chain
                    /\ \A j \in DOMAIN answers' :
                         j > i => ~( /\ answers'[j].status = 200
                                     /\ answers'[j].length > answers'[i].length
                                     /\ is_chain_valid(answers'[j].chain) = BOOL_TRUE )
      ]_vars

\* C20 witness: replace_chain returned True with a pool that holds a
\* transaction, the first peer's chain being valid and longer than the local
\* one and the second peer's longer still: the chain is the second peer's.
C20_Witness ==
    /\ op = "replace_chain"
    /\ outcome = BOOL_TRUE
    /\ pool(Ledger) = << UserTx >>
    /\ nodes = {"a:5001", "b:5001"}
    /\ Len(answers) = 2
    /\ answers[1] = Response(200, 2, Honest2)
    /\ answers[2] = Response(200, 4, Honest4)
    /\ chain_value(Ledger) = Honest4

====
